---------------------------- MODULE Spec2Model ----------------------------
(***************************************************************************)
(* Model of the 3DP stencil generator (src/3dp-stencil-generator).         *)
(*                                                                         *)
(* Lengths.  The board hands out integer nanometres; the generator turns   *)
(* them into millimetres with mm() and computes in floating point.  Here a *)
(* millimetre value is an integer count of micrometres (0.001 mm), so      *)
(* 0.01 mm is 10 and 0.15 mm is 150, and the arithmetic is exact.  A ratio *)
(* is a pair <<n, d>> with d > 0.                                          *)
(*                                                                         *)
(* Five specifications share the variables:                                *)
(*   SpecConnect  connect_line_segments on a pool of line segments         *)
(*   SpecOutline  generate_pcb_outline on a board                          *)
(*   SpecPads     find_pad_groups, calculate_group_shrink_factor and the   *)
(*                pad cuts of generate_pads                                *)
(*   SpecModules  generate_modules: frame, outline, pads, alignment holes  *)
(*   SpecRun      Run: the parameters dialog, the globals, the output file *)
(***************************************************************************)
EXTENDS Integers, Sequences, FiniteSets, TLC

VARIABLES
    pc,             \* position of the running function
    segments,       \* connect_line_segments: the argument
    polygon,        \* connect_line_segments: the chain built so far
    used_segments,  \* connect_line_segments: indices already chained
    result,         \* connect_line_segments: the returned list
    drawings,       \* the board: its drawings, in board order (nanometres)
    bbox,           \* the board: its bounding box [x, y, w, h] (nanometres)
    pcbClearence,   \* global configuration: PCB clearance
    center,         \* outline: <<center_x, center_y>> (nanometres)
    di,             \* outline: index of the drawing the collecting loop is at
    shapes,         \* outline: independent shapes collected so far
    line_segments,  \* outline: line segments collected so far
    math_bound,     \* outline: whether the local name math has been imported
    scad,           \* outline: the returned outline term
    min_mask_width, \* global configuration: minimum mask width
    min_pad_size,   \* global configuration: minimum pad size
    all_pads,       \* pads: pads_info, the pads selected for the stencil
    pad_groups,     \* pads: the groups find_pad_groups returned
    gi,             \* pads: index of the group the shrink loop is at
    group_shrink_factors, \* pads: pad index -> shrink factors of its group
    cuts,           \* pads: the emitted pad cuts
    front_copper_pads, \* global configuration: cut the pads on F.Cu
    back_copper_pads,  \* global configuration: cut the pads on B.Cu
    board_pads,     \* the board: the pads of its footprints (nanometres)
    stage,          \* generate_modules: the module being generated
    frame,          \* frame: the returned frame term
    pcb_bounds,     \* frame: what calculate_pcb_bounds returned
    pads_center,    \* pads: <<center_x, center_y>> (nanometres)
    holes,          \* alignment holes: the returned term
    board,          \* Run: the board pcbnew.GetBoard() returned
    dlg,            \* Run: the fields of the parameters dialog
    user_input,     \* Run: what the user did with the dialog
    scad_file,      \* Run: the content of the .scad output file
    outcome,        \* Run: how the latest invocation ended
    runs,           \* Run: number of invocations started
    before          \* Run: the configuration and the file when Run was entered

connectVars == <<segments, polygon, used_segments, result>>

boardVars == <<drawings, bbox, pcbClearence>>

outlineVars == <<center, di, shapes, line_segments, math_bound, scad>>

padVars == <<min_mask_width, min_pad_size, all_pads, pad_groups, gi, group_shrink_factors, cuts>>

planVars == <<front_copper_pads, back_copper_pads, board_pads, stage, frame, pcb_bounds,
              pads_center, holes>>

runVars == <<board, dlg, user_input, scad_file, outcome, runs, before>>

vars == <<pc, connectVars, boardVars, outlineVars, padVars, planVars, runVars>>

---------------------------------------------------------------------------
(* Arithmetic helpers *)

abs(v) == IF v < 0 THEN -v ELSE v

Min2(a, b) == IF a <= b THEN a ELSE b

Max2(a, b) == IF a >= b THEN a ELSE b

---------------------------------------------------------------------------
(* connect_line_segments                                                   *)

\* tolerance = 0.01 mm
Tolerance == 10

points_close_open(p1, p2, tolerance) ==
    abs(p1[1] - p2[1]) <= tolerance /\ abs(p1[2] - p2[2]) <= tolerance

\* both coordinate differences strictly below the tolerance
points_close(p1, p2, tolerance) ==
    abs(p1[1] - p2[1]) < tolerance /\ abs(p1[2] - p2[2]) < tolerance

\* does segment i connect to last_point (by its start or by its end)?
Connects(segs, i, last_point) ==
    \/ points_close(last_point, segs[i][1], Tolerance)
    \/ points_close(last_point, segs[i][2], Tolerance)

\* the for loop of one while iteration: the first unused segment that
\* connects, 0 when there is none
FindConnection_StartOnly(segs, used, last_point) ==
    LET C == {i \in 1..Len(segs) :
                 i \notin used /\ points_close(last_point, segs[i][1], Tolerance)}
    IN  IF C = {} THEN 0 ELSE CHOOSE i \in C : \A j \in C : i <= j

FindConnection(segs, used, last_point) ==
    LET C == {i \in 1..Len(segs) : i \notin used /\ Connects(segs, i, last_point)}
    IN  IF C = {} THEN 0 ELSE CHOOSE i \in C : \A j \in C : i <= j

\* the point appended for segment i: its end when its start connects,
\* otherwise its start
OtherEnd(segs, i, last_point) ==
    IF points_close(last_point, segs[i][1], Tolerance)
    THEN segs[i][2]
    ELSE segs[i][1]

\* len(polygon) > 2 and points_close(polygon[-1], polygon[0], tolerance)
IsClosed(poly) ==
    Len(poly) > 2 /\ points_close(poly[Len(poly)], poly[1], Tolerance)

\* len(used_segments) < len(segments) * 0.8, in tenths
TooFewUsed(used, segs) == 10 * Cardinality(used) < 8 * Len(segs)

\* what the function returns once the while loop has ended
ConnectReturn(segs, poly, used) ==
    IF IsClosed(poly) THEN SubSeq(poly, 1, Len(poly) - 1)
    ELSE IF TooFewUsed(used, segs) THEN <<>>
    ELSE poly

RECURSIVE ConnectLoop(_, _, _)
ConnectLoop(segs, poly, used) ==
    IF Cardinality(used) >= Len(segs) THEN ConnectReturn(segs, poly, used)
    ELSE LET i == FindConnection(segs, used, poly[Len(poly)])
         IN  IF i = 0 THEN ConnectReturn(segs, poly, used)
             ELSE ConnectLoop(segs,
                              Append(poly, OtherEnd(segs, i, poly[Len(poly)])),
                              used \cup {i})

\* the whole function, as the outline generator calls it
connect_line_segments(segs) ==
    IF segs = <<>> THEN <<>> ELSE ConnectLoop(segs, segs[1], {1})

(* the same function, one loop iteration per step *)

ConnectEmpty ==
    /\ pc = "connect"
    /\ segments = <<>>
    /\ result' = <<>>
    /\ pc' = "done"
    /\ UNCHANGED <<segments, polygon, used_segments>>
    /\ UNCHANGED <<boardVars, runVars, planVars, outlineVars, padVars>>

ConnectSeed ==
    /\ pc = "connect"
    /\ segments # <<>>
    /\ polygon' = segments[1]
    /\ used_segments' = {1}
    /\ pc' = "chain"
    /\ UNCHANGED <<segments, result>>
    /\ UNCHANGED <<boardVars, runVars, planVars, outlineVars, padVars>>

ConnectExtend ==
    /\ pc = "chain"
    /\ Cardinality(used_segments) < Len(segments)
    /\ LET last_point == polygon[Len(polygon)]
           i == FindConnection(segments, used_segments, last_point)
       IN  /\ i # 0
           /\ polygon' = Append(polygon, OtherEnd(segments, i, last_point))
           /\ used_segments' = used_segments \cup {i}
    /\ UNCHANGED <<pc, segments, result>>
    /\ UNCHANGED <<boardVars, runVars, planVars, outlineVars, padVars>>

ConnectStop ==
    /\ pc = "chain"
    /\ \/ Cardinality(used_segments) >= Len(segments)
       \/ FindConnection(segments, used_segments, polygon[Len(polygon)]) = 0
    /\ pc' = "closing"
    /\ UNCHANGED connectVars
    /\ UNCHANGED <<boardVars, runVars, planVars, outlineVars, padVars>>

ConnectReturnClosed ==
    /\ pc = "closing"
    /\ IsClosed(polygon)
    /\ result' = ConnectReturn(segments, polygon, used_segments)
    /\ pc' = "done"
    /\ UNCHANGED <<segments, polygon, used_segments>>
    /\ UNCHANGED <<boardVars, runVars, planVars, outlineVars, padVars>>

ConnectReturnEmpty ==
    /\ pc = "closing"
    /\ ~IsClosed(polygon)
    /\ TooFewUsed(used_segments, segments)
    /\ result' = ConnectReturn(segments, polygon, used_segments)
    /\ pc' = "done"
    /\ UNCHANGED <<segments, polygon, used_segments>>
    /\ UNCHANGED <<boardVars, runVars, planVars, outlineVars, padVars>>

ConnectReturnOpen ==
    /\ pc = "closing"
    /\ ~IsClosed(polygon)
    /\ ~TooFewUsed(used_segments, segments)
    /\ result' = ConnectReturn(segments, polygon, used_segments)
    /\ pc' = "done"
    /\ UNCHANGED <<segments, polygon, used_segments>>
    /\ UNCHANGED <<boardVars, runVars, planVars, outlineVars, padVars>>

(* values of the variables a specification does not use *)

IdleConnect ==
    /\ segments = <<>>
    /\ polygon = <<>>
    /\ used_segments = {}
    /\ result = <<>>

IdleBoard ==
    /\ drawings = <<>>
    /\ bbox = [x |-> 0, y |-> 0, w |-> 0, h |-> 0]
    /\ pcbClearence = 0

IdleOutline ==
    /\ center = <<0, 0>>
    /\ di = 0
    /\ shapes = <<>>
    /\ line_segments = <<>>
    /\ math_bound = FALSE
    /\ scad = <<>>

IdlePlan ==
    /\ front_copper_pads = TRUE
    /\ back_copper_pads = FALSE
    /\ board_pads = <<>>
    /\ stage = "none"
    /\ frame = <<>>
    /\ pcb_bounds = <<>>
    /\ pads_center = <<0, 0>>
    /\ holes = <<>>

IdleRun ==
    /\ board = <<>>
    /\ dlg = <<>>
    /\ user_input = <<>>
    /\ scad_file = <<>>
    /\ outcome = "none"
    /\ runs = 0
    /\ before = <<>>

IdlePads ==
    /\ min_mask_width = 0
    /\ min_pad_size = 0
    /\ all_pads = <<>>
    /\ pad_groups = <<>>
    /\ gi = 0
    /\ group_shrink_factors = <<>>
    /\ cuts = <<>>

(* the pools the function is run on *)

MaxSegs == 3

MaxCycle == 5

\* four points: the origin, one inside its tolerance box, one exactly one
\* tolerance away, one far away
PoolPoints == {<<0, 0>>, <<9, 9>>, <<Tolerance, 0>>, <<1000, 0>>}

PoolSegments == PoolPoints \X PoolPoints

GeneralPools == UNION {[1..n -> PoolSegments] : n \in 0..MaxSegs}

\* k vertices in convex position, neighbours exactly one tolerance apart in x
ParabolaVertices(k) == [i \in 1..k |-> <<(i - 1) * Tolerance, (i - 1) * (i - 1) * Tolerance>>]

\* the 10 mm x 5 mm rectangle
RectVertices == <<<<0, 0>>, <<10000, 0>>, <<10000, 5000>>, <<0, 5000>>>>

Permutations_(n) == {f \in [1..n -> 1..n] : \A i, j \in 1..n : i # j => f[i] # f[j]}

\* edge e of the cycle over vertex list V, reversed when flip is TRUE
CycleEdge(V, e, flip) ==
    LET a == V[e]
        b == V[(e % Len(V)) + 1]
    IN  IF flip THEN <<b, a>> ELSE <<a, b>>

\* the vertex lists of the simple cycles: the rectangle and k-gons
CycleVertexLists == {RectVertices} \cup {ParabolaVertices(k) : k \in 3..MaxCycle}

\* the cycle over V with its edges listed in order p and oriented by o
CyclePool(V, p, o) == [i \in 1..Len(V) |-> CycleEdge(V, p[i], o[i])]

CycleExtraSizes == {3, 4, 5, 6}

\* a segment that touches no vertex of the cycles above
ExtraSegments == {<<<<-1000, -1000>>, <<-2000, -1000>>>>, <<<<-2000, -1000>>, <<-1000, -1000>>>>}

InsertAt(s, pos, x) == SubSeq(s, 1, pos - 1) \o <<x>> \o SubSeq(s, pos, Len(s))

\* a k-cycle listed from edge r + 1 on, forwards or backwards, every edge
\* oriented by o, and the extra segment x at place pos of the list
CycleExtraPool(k, r, back, o, pos, x) ==
    InsertAt([i \in 1..k |->
                 CycleEdge(ParabolaVertices(k),
                           IF back THEN ((r + k - i) % k) + 1 ELSE ((r + i - 1) % k) + 1,
                           o[i])],
             pos, x)

\* vertex list V moved by d along x
Shifted(V, d) == [i \in 1..Len(V) |-> <<V[i][1] + d, V[i][2]>>]

\* two disjoint closed loops of k segments each, one listed after the other
TwoLoopPool(k, o, swap) ==
    LET A == CyclePool(ParabolaVertices(k), [i \in 1..k |-> i], o)
        B == CyclePool(Shifted(ParabolaVertices(k), 5000), [i \in 1..k |-> i], o)
    IN  IF swap THEN B \o A ELSE A \o B

InitConnect ==
    /\ pc = "connect"
    /\ \/ segments \in GeneralPools
       \/ \E V \in CycleVertexLists :
             \E p \in Permutations_(Len(V)), o \in [1..Len(V) -> BOOLEAN] :
                segments = CyclePool(V, p, o)
       \/ \E k \in CycleExtraSizes :
             \E r \in 0..(k - 1), back \in BOOLEAN, o \in [1..k -> BOOLEAN],
                pos \in 1..(k + 1), x \in ExtraSegments :
                segments = CycleExtraPool(k, r, back, o, pos, x)
       \/ \E k \in 3..MaxCycle :
             \E o \in [1..k -> BOOLEAN], swap \in BOOLEAN :
                segments = TwoLoopPool(k, o, swap)
    /\ polygon = <<>>
    /\ used_segments = {}
    /\ result = <<>>
    /\ IdleBoard
    /\ IdleOutline
    /\ IdlePads
    /\ IdlePlan
    /\ IdleRun

NextConnect ==
    \/ ConnectEmpty
    \/ ConnectSeed
    \/ ConnectExtend
    \/ ConnectStop
    \/ ConnectReturnClosed
    \/ ConnectReturnEmpty
    \/ ConnectReturnOpen

SpecConnect == InitConnect /\ [][NextConnect]_vars

---------------------------------------------------------------------------
(* Properties of connect_line_segments                                     *)

\* within the stitching tolerance of each other
Near(p, q) == abs(p[1] - q[1]) < Tolerance /\ abs(p[2] - q[2]) < Tolerance

\* segments i and j of the pool share an end point (up to the tolerance)
Touch(segs, i, j) ==
    i # j /\ \E a, b \in 1..2 : Near(segs[i][a], segs[j][b])

\* the end points of other segments of I that lie near end a of segment i
Partners(segs, I, i, a) ==
    {<<j, b>> \in (I \ {i}) \X (1..2) : Near(segs[i][a], segs[j][b])}

RECURSIVE Reach(_, _, _)
Reach(segs, I, S) ==
    LET T == S \cup {j \in I : \E i \in S : Touch(segs, i, j)}
    IN  IF T = S THEN S ELSE Reach(segs, I, T)

\* the segments with index in I form one simple cycle without branching:
\* at least three of them, none shorter than the tolerance, every end point
\* met by exactly one end point of another segment, all in one piece
IsSimpleCycle(segs, I) ==
    /\ Cardinality(I) >= 3
    /\ \A i \in I : ~Near(segs[i][1], segs[i][2])
    /\ \A i \in I : \A a \in 1..2 : Cardinality(Partners(segs, I, i, a)) = 1
    /\ \E i \in I : Reach(segs, I, {i}) = I

\* segment e touches nothing and the other segments form a simple cycle
IsCycleWithExtra(segs, e) ==
    /\ e \in 1..Len(segs)
    /\ \A j \in 1..Len(segs) : ~Touch(segs, e, j)
    /\ IsSimpleCycle(segs, (1..Len(segs)) \ {e})

Joins(seg, a, b) == (seg[1] = a /\ seg[2] = b) \/ (seg[1] = b /\ seg[2] = a)

\* poly lists the vertices of the cycle formed by the segments of I in
\* cyclic order: one point per segment, no two of them near each other, and
\* every point joined to the next (the last to the first) by a segment
ListsCycle(poly, segs, I) ==
    /\ Len(poly) = Cardinality(I)
    /\ \A i, j \in 1..Len(poly) : i # j => ~Near(poly[i], poly[j])
    /\ \A i \in 1..Len(poly) :
          \E j \in I : Joins(segs[j], poly[i], poly[(i % Len(poly)) + 1])

RECURSIVE Shoelace(_, _)
Shoelace(poly, i) ==
    IF i > Len(poly) THEN 0
    ELSE LET p == poly[i]
             q == poly[(i % Len(poly)) + 1]
         IN  p[1] * q[2] - q[1] * p[2] + Shoelace(poly, i + 1)

\* twice the area enclosed by poly
Area2(poly) == abs(Shoelace(poly, 1))

\* the four sides of the 10 mm x 5 mm rectangle, in any order and orientation
IsRectanglePool(segs) ==
    /\ Len(segs) = 4
    /\ {segs[i][a] : i \in 1..4, a \in 1..2} = {RectVertices[i] : i \in 1..4}
    /\ \A i \in 1..4 : segs[i][1][1] = segs[i][2][1] \/ segs[i][1][2] = segs[i][2][2]
    /\ IsSimpleCycle(segs, 1..4)

\* C1: whenever connect_line_segments returns a non-empty list, the last
\* point of the chain is within the tolerance of its first point (a chain
\* that does not close yields the empty list).
C1_NonEmptyOnlyWhenClosed ==
    (pc = "done" /\ result # <<>>) =>
        Near(polygon[Len(polygon)], polygon[1])

\* C2: whenever connect_line_segments returns a non-empty list, at least
\* 80% of the segments of the pool were consumed by the chain.
C2_NonEmptyOnlyWhenMostUsed ==
    (pc = "done" /\ result # <<>>) =>
        10 * Cardinality(used_segments) >= 8 * Len(segments)

C4_SimpleCycleStitches ==
    (pc = "done" /\ IsSimpleCycle(segments, 1..Len(segments))) =>
        /\ used_segments = 1..Len(segments)
        /\ ListsCycle(result, segments, 1..Len(segments))
        /\ IsRectanglePool(segments) => Area2(result) = 2 * 10000 * 5000

\* C4, witness: a simple cycle whose second segment does not continue the
\* first one, and whose first segment is listed against the direction in
\* which the third one runs, has been stitched.
C4_Witness ==
    /\ pc = "done"
    /\ IsSimpleCycle(segments, 1..Len(segments))
    /\ Len(segments) >= 4
    /\ ~Touch(segments, 1, 2)
    /\ Len(result) = Len(segments)
    /\ \E i \in 1..Len(segments) : segments[i][2] = result[1] /\ i # 1

\* C18: a non-empty polygon returned by connect_line_segments has no two
\* consecutive points within the stitching tolerance of each other, the
\* last and the first point included; this holds for every pool, pools
\* with zero-length segments included.
C18_NoNearConsecutivePoints ==
    (pc = "done" /\ result # <<>>) =>
        \A k \in 1..Len(result) : ~Near(result[k], result[(k % Len(result)) + 1])

---------------------------------------------------------------------------
(* The board and generate_pcb_outline                                      *)

\* mm(nm) = nm / 1e6: a millimetre value, counted in micrometres
NmPerMicron == 1000

mm(nm) == nm \div NmPerMicron

\* what find_shape_on_layer returns when the layer holds no rectangle
None == <<>>

\* the first rectangle on the layer as (x, y, width, height), in nanometres
find_shape_on_layer(ds, layer) ==
    LET R == {i \in 1..Len(ds) : ds[i].shape = "rect" /\ ds[i].layer = layer}
    IN  IF R = {} THEN None
        ELSE LET d == ds[CHOOSE i \in R : \A j \in R : i <= j]
             IN  <<d.start[1], d.start[2],
                   d.end[1] - d.start[1], d.end[2] - d.start[2]>>

\* an emitted 2-D shape.  op is "offset_polygon" (offset(r) polygon(points)),
\* "circle" (translate, circle(r)), "rect" (translate, square([w, h])),
\* "line" (translate, rotate, square([w, h])) or "square" (square([w, h]),
\* centred).  The centre is kept doubled (cx2 = 2 * cx), the rotation as the
\* vector whose atan2 it is, and the length w of a line as its square.
Shape(op, cx2, cy2, w, h, r, dir, points) ==
    [op |-> op, cx2 |-> cx2, cy2 |-> cy2, w |-> w, h |-> h, r |-> r,
     dir |-> dir, points |-> points]

\* an outline term: one statement, or a union() of several
Scad(wrap, items) == [wrap |-> wrap, items |-> items]

\* the reference centre of generate_pcb_outline_from_edge_cuts
OutlineCenter(ds, bb) ==
    LET pcb_rect == find_shape_on_layer(ds, "User_9")
    IN  IF pcb_rect # None
        THEN <<pcb_rect[1] + pcb_rect[3] \div 2, pcb_rect[2] + pcb_rect[4] \div 2>>
        ELSE <<bb.x + bb.w \div 2, bb.y + bb.h \div 2>>

\* a board point relative to the centre, in millimetres
Rel(pt, c) == <<mm(pt[1] - c[1]), mm(pt[2] - c[2])>>

(* arcs *)

RECURSIVE ISqrtIn(_, _, _)
ISqrtIn(n, lo, hi) ==
    IF lo >= hi THEN lo
    ELSE LET mid == (lo + hi + 1) \div 2
         IN  IF mid * mid <= n THEN ISqrtIn(n, mid, hi) ELSE ISqrtIn(n, lo, mid - 1)

\* math.sqrt, rounded down to a whole micrometre
ISqrt(n) == ISqrtIn(n, 0, 46340)

\* math.atan2 in tenths of a degree, for the eight principal directions
Atan2(y, x) ==
    CASE y = 0 /\ x >= 0 -> 0
      [] y = 0 /\ x < 0 -> 1800
      [] x = 0 /\ y > 0 -> 900
      [] x = 0 /\ y < 0 -> -900
      [] x > 0 /\ y = x -> 450
      [] x > 0 /\ y = -x -> -450
      [] x < 0 /\ y = -x -> 1350
      [] x < 0 /\ y = x -> -1350

\* 500 * sin of an angle given in tenths of a degree (Bhaskara's rational
\* approximation, exact at the multiples of 30 and 90 degrees)
Sin500(a) ==
    LET x == a % 3600
        P(u) == u * (1800 - u)
        B(u) == (2000 * P(u)) \div (4050000 - P(u))
    IN  IF x <= 1800 THEN B(x) ELSE -B(x - 1800)

Cos500(a) == Sin500(a + 900)

\* num_segments, computed from the angles as atan2 returned them
ArcNumSegments(start_angle, end_angle) ==
    Max2(8, abs(end_angle - start_angle) \div 100)

\* end_angle after "if end_angle < start_angle: end_angle += 2 * math.pi"
ArcEndAngle(start_angle, end_angle) ==
    IF end_angle < start_angle THEN end_angle + 3600 ELSE end_angle

\* the tessellation points of an arc drawing: arc_points
ArcPoints(d, c) ==
    LET ctr == Rel(d.center, c)
        s == Rel(d.start, c)
        e == Rel(d.end, c)
        radius == ISqrt((s[1] - ctr[1]) * (s[1] - ctr[1]) + (s[2] - ctr[2]) * (s[2] - ctr[2]))
        start_angle == Atan2(s[2] - ctr[2], s[1] - ctr[1])
        end_angle0 == Atan2(e[2] - ctr[2], e[1] - ctr[1])
        num_segments == ArcNumSegments(start_angle, end_angle0)
        end_angle == ArcEndAngle(start_angle, end_angle0)
    IN  [k \in 1..(num_segments + 1) |->
            LET angle == start_angle + ((end_angle - start_angle) * (k - 1)) \div num_segments
            IN  <<ctr[1] + (radius * Cos500(angle)) \div 500,
                  ctr[2] + (radius * Sin500(angle)) \div 500>>]

\* the line segments between consecutive tessellation points
ArcSegments(d, c) ==
    LET pts == ArcPoints(d, c)
    IN  [k \in 1..(Len(pts) - 1) |-> <<pts[k], pts[k + 1]>>]

(* the independent shapes, with the clearance *)

CircleShape(d, c, clearance) ==
    LET ctr == Rel(d.center, c)
    IN  Shape("circle", 2 * ctr[1], 2 * ctr[2], 0, 0, mm(d.radius) + clearance, <<1, 0>>, <<>>)

RectShape(d, c, clearance) ==
    LET p1 == Rel(d.start, c)
        p2 == Rel(d.end, c)
    IN  Shape("rect", p1[1] + p2[1], p1[2] + p2[2],
              abs(p2[1] - p1[1]) + 2 * clearance, abs(p2[2] - p1[2]) + 2 * clearance,
              0, <<1, 0>>, <<>>)

\* the squared length of a line segment
Length2(seg) ==
    (seg[2][1] - seg[1][1]) * (seg[2][1] - seg[1][1])
    + (seg[2][2] - seg[1][2]) * (seg[2][2] - seg[1][2])

\* length > 0.001
IsLong(seg) == Length2(seg) > 1

\* line_width = 0.1 + 2 * pcbClearence
LineWidth(clearance) == 100 + 2 * clearance

LineShape(seg, clearance) ==
    Shape("line", seg[1][1] + seg[2][1], seg[1][2] + seg[2][2],
          Length2(seg), LineWidth(clearance), 0,
          <<seg[2][1] - seg[1][1], seg[2][2] - seg[1][2]>>, <<>>)

\* one thin rectangle per line segment longer than 0.001 mm
RECURSIVE LineShapes(_, _)
LineShapes(segs, clearance) ==
    IF segs = <<>> THEN <<>>
    ELSE (IF IsLong(Head(segs)) THEN <<LineShape(Head(segs), clearance)>> ELSE <<>>)
         \o LineShapes(Tail(segs), clearance)

PolygonShape(points, clearance) ==
    Shape("offset_polygon", 0, 0, 0, 0, clearance, <<1, 0>>, points)

\* square([w, h], center=true)
SquareShape(w, h) == Shape("square", 0, 0, w, h, 0, <<1, 0>>, <<>>)

\* "Add other shapes to union if we have any" and the bounding-box fallback,
\* for the polygon statement poly (<<>> when there is none)
FinalScad(poly, shps, bb, clearance) ==
    IF shps # <<>>
    THEN IF poly # <<>> THEN Scad("union", poly \o shps)
         ELSE IF Len(shps) = 1 THEN Scad("none", shps)
         ELSE Scad("union", shps)
    ELSE IF poly # <<>> THEN Scad("none", poly)
    ELSE Scad("none", <<SquareShape(mm(bb.w) + 2 * clearance, mm(bb.h) + 2 * clearance)>>)

(* generate_pcb_outline *)

\* a User.9 rectangle exists: the outline is that rectangle
OutlineUser9 ==
    /\ pc = "outline"
    /\ find_shape_on_layer(drawings, "User_9") # None
    /\ LET pcb_rect == find_shape_on_layer(drawings, "User_9")
       IN  scad' = Scad("none", <<SquareShape(mm(pcb_rect[3]), mm(pcb_rect[4]))>>)
    /\ pc' = "done"
    /\ UNCHANGED <<padVars, connectVars, boardVars, runVars, planVars, center, di, shapes, line_segments, math_bound>>

\* no User.9 rectangle: generate_pcb_outline_from_edge_cuts starts
OutlineEdgeCuts ==
    /\ pc = "outline"
    /\ find_shape_on_layer(drawings, "User_9") = None
    /\ center' = OutlineCenter(drawings, bbox)
    /\ shapes' = <<>>
    /\ line_segments' = <<>>
    /\ di' = 1
    /\ pc' = "collect"
    /\ UNCHANGED <<padVars, connectVars, boardVars, runVars, planVars, math_bound, scad>>

Collecting == pc = "collect" /\ di <= Len(drawings)

CollectSkip ==
    /\ Collecting
    /\ \/ drawings[di].layer # "Edge_Cuts"
       \/ drawings[di].shape \notin {"segment", "circle", "rect", "arc"}
    /\ di' = di + 1
    /\ UNCHANGED <<pc, padVars, connectVars, boardVars, runVars, planVars, center, shapes, line_segments, math_bound, scad>>

CollectSegment ==
    /\ Collecting
    /\ drawings[di].layer = "Edge_Cuts" /\ drawings[di].shape = "segment"
    /\ line_segments' = Append(line_segments,
                               <<Rel(drawings[di].start, center), Rel(drawings[di].end, center)>>)
    /\ di' = di + 1
    /\ UNCHANGED <<pc, padVars, connectVars, boardVars, runVars, planVars, center, shapes, math_bound, scad>>

CollectCircle ==
    /\ Collecting
    /\ drawings[di].layer = "Edge_Cuts" /\ drawings[di].shape = "circle"
    /\ shapes' = Append(shapes, CircleShape(drawings[di], center, pcbClearence))
    /\ di' = di + 1
    /\ UNCHANGED <<pc, padVars, connectVars, boardVars, runVars, planVars, center, line_segments, math_bound, scad>>

CollectRect ==
    /\ Collecting
    /\ drawings[di].layer = "Edge_Cuts" /\ drawings[di].shape = "rect"
    /\ shapes' = Append(shapes, RectShape(drawings[di], center, pcbClearence))
    /\ di' = di + 1
    /\ UNCHANGED <<pc, padVars, connectVars, boardVars, runVars, planVars, center, line_segments, math_bound, scad>>

\* the arc branch is the only place that executes "import math"
CollectArc ==
    /\ Collecting
    /\ drawings[di].layer = "Edge_Cuts" /\ drawings[di].shape = "arc"
    /\ math_bound' = TRUE
    /\ line_segments' = line_segments \o ArcSegments(drawings[di], center)
    /\ di' = di + 1
    /\ UNCHANGED <<pc, padVars, connectVars, boardVars, runVars, planVars, center, shapes, scad>>

Collected == pc = "collect" /\ di > Len(drawings)

\* the line segments stitch: offset polygon, in a union with the shapes
BuildPolygon ==
    /\ Collected
    /\ line_segments # <<>>
    /\ connect_line_segments(line_segments) # <<>>
    /\ scad' = FinalScad(<<PolygonShape(connect_line_segments(line_segments), pcbClearence)>>,
                         shapes, bbox, pcbClearence)
    /\ pc' = "done"
    /\ UNCHANGED <<padVars, connectVars, boardVars, runVars, planVars, center, di, shapes, line_segments, math_bound>>

\* the line segments do not stitch and math is unbound when the first
\* segment longer than 0.001 mm reaches math.atan2: UnboundLocalError
BuildRaise ==
    /\ Collected
    /\ line_segments # <<>>
    /\ connect_line_segments(line_segments) = <<>>
    /\ ~math_bound
    /\ \E k \in 1..Len(line_segments) : IsLong(line_segments[k])
    /\ pc' = "raised"
    /\ UNCHANGED <<padVars, connectVars, boardVars, runVars, planVars, outlineVars>>

\* the line segments do not stitch: one thin rectangle per segment
BuildLines ==
    /\ Collected
    /\ line_segments # <<>>
    /\ connect_line_segments(line_segments) = <<>>
    /\ math_bound \/ \A k \in 1..Len(line_segments) : ~IsLong(line_segments[k])
    /\ shapes' = shapes \o LineShapes(line_segments, pcbClearence)
    /\ scad' = FinalScad(<<>>, shapes', bbox, pcbClearence)
    /\ pc' = "done"
    /\ UNCHANGED <<padVars, connectVars, boardVars, runVars, planVars, center, di, line_segments, math_bound>>

\* no line segment at all: the shapes alone, or the bounding-box fallback
BuildShapes ==
    /\ Collected
    /\ line_segments = <<>>
    /\ scad' = FinalScad(<<>>, shapes, bbox, pcbClearence)
    /\ pc' = "done"
    /\ UNCHANGED <<padVars, connectVars, boardVars, runVars, planVars, center, di, shapes, line_segments, math_bound>>

(* the boards the outline is generated for *)

MaxDrawings == 3

Drawing(layer, shape, start, end, ctr, radius) ==
    [layer |-> layer, shape |-> shape, start |-> start, end |-> end,
     center |-> ctr, radius |-> radius]

\* a point given in millimetres, in nanometres
AtMm(x, y) == <<x * 1000 * NmPerMicron, y * 1000 * NmPerMicron>>

Line(layer, a, b) == Drawing(layer, "segment", a, b, <<0, 0>>, 0)

\* three sides of a triangle, a line that touches none of them, a line of
\* length zero, a circle, a 2 mm x 3 mm rectangle, a quarter arc (0 to 90
\* degrees) and the three-quarter arc back (90 to 0 degrees) on Edge.Cuts;
\* the reference rectangle on User.9; an alignment hole on User.7
BoardDrawings ==
    { Line("Edge_Cuts", AtMm(0, 0), AtMm(10, 0)),
      Line("Edge_Cuts", AtMm(10, 0), AtMm(10, 5)),
      Line("Edge_Cuts", AtMm(0, 0), AtMm(10, 5)),
      Line("Edge_Cuts", AtMm(0, 8), AtMm(4, 8)),
      Line("Edge_Cuts", AtMm(2, 2), AtMm(2, 2)),
      Drawing("Edge_Cuts", "circle", <<0, 0>>, <<0, 0>>, AtMm(5, 2), 1000 * NmPerMicron),
      Drawing("Edge_Cuts", "rect", AtMm(1, 1), AtMm(3, 4), <<0, 0>>, 0),
      Drawing("Edge_Cuts", "arc", AtMm(20, 5), AtMm(15, 10), AtMm(15, 5), 0),
      Drawing("Edge_Cuts", "arc", AtMm(15, 10), AtMm(20, 5), AtMm(15, 5), 0),
      Drawing("User_9", "rect", AtMm(0, 0), AtMm(10, 5), <<0, 0>>, 0),
      Drawing("User_7", "circle", <<0, 0>>, <<0, 0>>, AtMm(1, 1), 1500 * NmPerMicron) }

Boards == UNION {[1..n -> BoardDrawings] : n \in 0..MaxDrawings}

BoundingBoxes == {[x |-> 0, y |-> 0, w |-> 20000 * NmPerMicron, h |-> 10000 * NmPerMicron]}

\* no clearance, and the default 0.15 mm
Clearances == {0, 150}

InitOutline ==
    /\ pc = "outline"
    /\ drawings \in Boards
    /\ bbox \in BoundingBoxes
    /\ pcbClearence \in Clearances
    /\ IdleConnect
    /\ IdleOutline
    /\ IdlePads
    /\ IdlePlan
    /\ IdleRun

NextOutline ==
    \/ OutlineUser9
    \/ OutlineEdgeCuts
    \/ CollectSkip
    \/ CollectSegment
    \/ CollectCircle
    \/ CollectRect
    \/ CollectArc
    \/ BuildPolygon
    \/ BuildRaise
    \/ BuildLines
    \/ BuildShapes

SpecOutline == InitOutline /\ [][NextOutline]_vars

---------------------------------------------------------------------------
(* Properties of generate_pcb_outline                                      *)

\* the items of the returned outline term
OutlineItems == IF pc = "done" THEN scad.items ELSE <<>>

HasPolygon == \E k \in 1..Len(OutlineItems) : OutlineItems[k].op = "offset_polygon"

\* the thin rectangle that stands for line segment seg
IsLineOf(item, seg) ==
    /\ item.op = "line"
    /\ item.cx2 = seg[1][1] + seg[2][1]
    /\ item.cy2 = seg[1][2] + seg[2][2]
    /\ item.dir = <<seg[2][1] - seg[1][1], seg[2][2] - seg[1][2]>>

\* C5: outline generation never aborts: it completes without raising and
\* returns a non-empty outline term; when no polygon was formed, every
\* collected line segment longer than 0.001 mm appears in it as a thin
\* rectangle.
C5_OutlineNeverAborts ==
    /\ pc # "raised"
    /\ pc = "done" =>
          /\ OutlineItems # <<>>
          /\ (find_shape_on_layer(drawings, "User_9") = None /\ ~HasPolygon) =>
                \A k \in 1..Len(line_segments) :
                    IsLong(line_segments[k]) =>
                        \E j \in 1..Len(OutlineItems) :
                            IsLineOf(OutlineItems[j], line_segments[k])

\* the clearance is applied to what the Edge.Cuts path emits: the polygon is
\* offset by c, a circle's radius grows by c, a rectangle grows by 2c per
\* dimension about its own centre, a thin line is 0.1 mm + 2c thick and the
\* bounding-box fallback grows by 2c per dimension
ClearanceOnEdgeCutsOutline ==
    (pc = "done" /\ find_shape_on_layer(drawings, "User_9") = None) =>
        \A k \in 1..Len(OutlineItems) :
            LET item == OutlineItems[k]
                c == pcbClearence
                ctr == <<bbox.x + bbox.w \div 2, bbox.y + bbox.h \div 2>>
                E == {j \in 1..Len(drawings) : drawings[j].layer = "Edge_Cuts"}
            IN  CASE item.op = "offset_polygon" -> item.r = c
                  [] item.op = "circle" ->
                        \E j \in E :
                            /\ drawings[j].shape = "circle"
                            /\ item.r * NmPerMicron = drawings[j].radius + c * NmPerMicron
                            /\ item.cx2 * NmPerMicron = 2 * (drawings[j].center[1] - ctr[1])
                            /\ item.cy2 * NmPerMicron = 2 * (drawings[j].center[2] - ctr[2])
                  [] item.op = "rect" ->
                        \E j \in E :
                            /\ drawings[j].shape = "rect"
                            /\ item.w * NmPerMicron =
                                  abs(drawings[j].end[1] - drawings[j].start[1]) + 2 * c * NmPerMicron
                            /\ item.h * NmPerMicron =
                                  abs(drawings[j].end[2] - drawings[j].start[2]) + 2 * c * NmPerMicron
                            /\ item.cx2 * NmPerMicron =
                                  drawings[j].start[1] + drawings[j].end[1] - 2 * ctr[1]
                            /\ item.cy2 * NmPerMicron =
                                  drawings[j].start[2] + drawings[j].end[2] - 2 * ctr[2]
                  [] item.op = "line" -> item.h = 100 + 2 * c
                  [] item.op = "square" ->
                        /\ item.w * NmPerMicron = bbox.w + 2 * c * NmPerMicron
                        /\ item.h * NmPerMicron = bbox.h + 2 * c * NmPerMicron

\* the clearance is applied to the reference rectangle: the outline is the
\* User.9 rectangle grown by 2c per dimension
ClearanceOnReferenceOutline ==
    (pc = "done" /\ find_shape_on_layer(drawings, "User_9") # None) =>
        LET u9 == find_shape_on_layer(drawings, "User_9")
        IN  /\ Len(OutlineItems) = 1
            /\ OutlineItems[1].op = "square"
            /\ OutlineItems[1].w * NmPerMicron = u9[3] + 2 * pcbClearence * NmPerMicron
            /\ OutlineItems[1].h * NmPerMicron = u9[4] + 2 * pcbClearence * NmPerMicron

\* C6: the clearance c is applied to whichever outline representation
\* generate_pcb_outline emits (stitched polygon, independent rectangle or
\* circle, thin line, reference rectangle, bounding-box fallback); with
\* c = 0 every emitted shape is the un-expanded shape.
C6_ClearanceOnEveryOutline ==
    ClearanceOnEdgeCutsOutline /\ ClearanceOnReferenceOutline

\* the sweep of an arc drawing in tenths of a degree: from its start angle
\* to its end angle, the end angle raised by a full turn when it is below
\* the start angle
Sweep(d, c) ==
    LET ctr == Rel(d.center, c)
        s == Rel(d.start, c)
        e == Rel(d.end, c)
        startAngle == Atan2(s[2] - ctr[2], s[1] - ctr[1])
        endAngle == Atan2(e[2] - ctr[2], e[1] - ctr[1])
    IN  (IF endAngle < startAngle THEN endAngle + 3600 ELSE endAngle) - startAngle

\* the number of line segments the Edge.Cuts drawings should contribute:
\* one per segment, max(8, floor(sweepDegrees / 10)) per arc
RECURSIVE SegmentCount(_, _)
SegmentCount(ds, c) ==
    IF ds = <<>> THEN 0
    ELSE (IF Head(ds).layer # "Edge_Cuts" THEN 0
          ELSE IF Head(ds).shape = "segment" THEN 1
          ELSE IF Head(ds).shape = "arc" THEN Max2(8, Sweep(Head(ds), c) \div 100)
          ELSE 0)
         + SegmentCount(Tail(ds), c)

\* C17: every arc is tessellated into max(8, floor(sweepDegrees / 10))
\* segments, sweepDegrees being the sweep from the start angle to the end
\* angle after the end angle has been raised by 2*pi when it is below the
\* start angle: once the drawings are collected, the line segments number
\* one per Edge.Cuts segment plus that count per Edge.Cuts arc.
C17_ArcSegmentCount ==
    (find_shape_on_layer(drawings, "User_9") = None /\ (Collected \/ pc \in {"done", "raised"})) =>
        Len(line_segments) = SegmentCount(drawings, center)

---------------------------------------------------------------------------
(* find_pad_groups, calculate_group_shrink_factor and the pad cuts         *)

\* a millimetre is 1000 micrometres: a configured length read as a plain
\* number (in millimetres) is the ratio <<length, MicronPerMm>>
MicronPerMm == 1000

\* ratios <<n, d>>, d > 0
RLess(a, b) == a[1] * b[2] < b[1] * a[2]

RMin(a, b) == IF RLess(b, a) THEN b ELSE a

RMax(a, b) == IF RLess(a, b) THEN b ELSE a

(* find_pad_groups *)

\* distance < max_dimension + min_mask_width * 2
PadsClose(a, b, mmw) ==
    LET dx == b.x - a.x
        dy == b.y - a.y
        max_dimension == Max2(Max2(a.width, a.height), Max2(b.width, b.height))
        threshold == max_dimension + mmw * 2
    IN  dx * dx + dy * dy < threshold * threshold

\* one pass of "for j ...": the first unprocessed pad close to a pad of the
\* current group, 0 when there is none
NextMember(pads, current_group, processed, mmw) ==
    LET J == {j \in 1..Len(pads) :
                 /\ j \notin processed
                 /\ \E k \in 1..Len(current_group) :
                        PadsClose(pads[current_group[k]], pads[j], mmw)}
    IN  IF J = {} THEN 0 ELSE CHOOSE j \in J : \A k \in J : j <= k

\* the pads close to the first pad of the group only, in list order
GrowGroup_SeedOnly(pads, current_group, processed, mmw) ==
    LET J == {j \in 1..Len(pads) :
                 j \notin processed /\ PadsClose(pads[current_group[1]], pads[j], mmw)}
        Ordered[S \in SUBSET J] ==
            IF S = {} THEN <<>>
            ELSE LET j == CHOOSE k \in S : \A l \in S : k <= l
                 IN  <<j>> \o Ordered[S \ {j}]
    IN  current_group \o Ordered[J]

\* the while loop: the current group grown until nothing changes
RECURSIVE GrowGroup(_, _, _, _)
GrowGroup(pads, current_group, processed, mmw) ==
    LET j == NextMember(pads, current_group, processed, mmw)
    IN  IF j = 0 THEN current_group
        ELSE GrowGroup(pads, Append(current_group, j), processed \cup {j}, mmw)

SeqRange(q) == {q[k] : k \in 1..Len(q)}

\* the outer loop from pad i on, forgetting the pads added while growing
RECURSIVE GroupsFrom_ForgetProcessed(_, _, _, _)
GroupsFrom_ForgetProcessed(pads, i, processed, mmw) ==
    IF i > Len(pads) THEN <<>>
    ELSE IF i \in processed THEN GroupsFrom_ForgetProcessed(pads, i + 1, processed, mmw)
    ELSE LET g == GrowGroup(pads, <<i>>, processed \cup {i}, mmw)
         IN  <<g>> \o GroupsFrom_ForgetProcessed(pads, i + 1, processed \cup {i}, mmw)

\* the outer loop from pad i on
RECURSIVE GroupsFrom(_, _, _, _)
GroupsFrom(pads, i, processed, mmw) ==
    IF i > Len(pads) THEN <<>>
    ELSE IF i \in processed THEN GroupsFrom(pads, i + 1, processed, mmw)
    ELSE LET g == GrowGroup(pads, <<i>>, processed \cup {i}, mmw)
         IN  <<g>> \o GroupsFrom(pads, i + 1, processed \cup SeqRange(g), mmw)

find_pad_groups(pads, mmw) == GroupsFrom(pads, 1, {}, mmw)

(* calculate_group_shrink_factor *)

\* required_shrink along x: (abs(dx) - min_mask_width) / (half widths)
RequiredX(p1, p2, mmw) == <<2 * (abs(p2.x - p1.x) - mmw), p1.width + p2.width>>

RequiredY(p1, p2, mmw) == <<2 * (abs(p2.y - p1.y) - mmw), p1.height + p2.height>>

\* current_gap along x and along y, doubled
CurrentGapX(p1, p2) == 2 * abs(p2.x - p1.x) - p1.width - p2.width

CurrentGapY(p1, p2) == 2 * abs(p2.y - p1.y) - p1.height - p2.height

\* current_gap < min_mask_width along x, along y
GapTooSmallX(p1, p2, mmw) == CurrentGapX(p1, p2) < 2 * mmw

GapTooSmallY(p1, p2, mmw) == CurrentGapY(p1, p2) < 2 * mmw

\* the pair is skipped: distance < 0.001
Coincide(p1, p2) ==
    (p2.x - p1.x) * (p2.x - p1.x) + (p2.y - p1.y) * (p2.y - p1.y) < 1

XDominant(p1, p2) == 2 * abs(p2.x - p1.x) > 3 * abs(p2.y - p1.y)

YDominant(p1, p2) == 2 * abs(p2.y - p1.y) > 3 * abs(p2.x - p1.x)

\* min_width_shrink after the pair (p1, p2)
PairWidth(s, p1, p2, mmw) ==
    IF Coincide(p1, p2) THEN s
    ELSE IF XDominant(p1, p2)
         THEN IF GapTooSmallX(p1, p2, mmw) THEN RMin(s, RequiredX(p1, p2, mmw)) ELSE s
    ELSE IF YDominant(p1, p2) THEN s
    ELSE IF GapTooSmallX(p1, p2, mmw) THEN RMin(s, RequiredX(p1, p2, mmw)) ELSE s

\* min_height_shrink after the pair (p1, p2)
PairHeight(s, p1, p2, mmw) ==
    IF Coincide(p1, p2) THEN s
    ELSE IF XDominant(p1, p2) THEN s
    ELSE IF YDominant(p1, p2)
         THEN IF GapTooSmallY(p1, p2, mmw) THEN RMin(s, RequiredY(p1, p2, mmw)) ELSE s
    ELSE IF GapTooSmallY(p1, p2, mmw) THEN RMin(s, RequiredY(p1, p2, mmw)) ELSE s

\* the double loop over the pairs i < j of the group, from pair (i, j) on
RECURSIVE PairsWidth(_, _, _, _, _)
PairsWidth(gp, i, j, s, mmw) ==
    IF i > Len(gp) THEN s
    ELSE IF j > Len(gp) THEN PairsWidth(gp, i + 1, i + 2, s, mmw)
    ELSE PairsWidth(gp, i, j + 1, PairWidth(s, gp[i], gp[j], mmw), mmw)

RECURSIVE PairsHeight(_, _, _, _, _)
PairsHeight(gp, i, j, s, mmw) ==
    IF i > Len(gp) THEN s
    ELSE IF j > Len(gp) THEN PairsHeight(gp, i + 1, i + 2, s, mmw)
    ELSE PairsHeight(gp, i, j + 1, PairHeight(s, gp[i], gp[j], mmw), mmw)

\* "Ensure minimum pad size": the loop over the pads of the group, from
\* pad k on, for the dimension dim of the pads
RECURSIVE ClampToPadSize(_, _, _, _, _)
ClampToPadSize(gp, k, s, dim, mps) ==
    IF k > Len(gp) THEN s
    ELSE LET size == IF dim = "width" THEN gp[k].width ELSE gp[k].height
             t == IF size * s[1] < mps * s[2] THEN RMax(s, <<mps, size>>) ELSE s
         IN  ClampToPadSize(gp, k + 1, t, dim, mps)

\* max(min_pad_size, shrink): the configured size compared as a plain number
FinalFactor(s, mps) == RMax(<<mps, MicronPerMm>>, s)

calculate_group_shrink_factor_NoClamp(group_indices, pads, mmw, mps) ==
    IF Len(group_indices) <= 1 THEN [width |-> <<1, 1>>, height |-> <<1, 1>>]
    ELSE LET group_pads == [k \in 1..Len(group_indices) |-> pads[group_indices[k]]]
         IN  [width |-> FinalFactor(PairsWidth(group_pads, 1, 2, <<1, 1>>, mmw), mps),
              height |-> FinalFactor(PairsHeight(group_pads, 1, 2, <<1, 1>>, mmw), mps)]

calculate_group_shrink_factor(group_indices, pads, mmw, mps) ==
    IF Len(group_indices) <= 1 THEN [width |-> <<1, 1>>, height |-> <<1, 1>>]
    ELSE LET group_pads == [k \in 1..Len(group_indices) |-> pads[group_indices[k]]]
             min_width_shrink ==
                 ClampToPadSize(group_pads, 1,
                                PairsWidth(group_pads, 1, 2, <<1, 1>>, mmw), "width", mps)
             min_height_shrink ==
                 ClampToPadSize(group_pads, 1,
                                PairsHeight(group_pads, 1, 2, <<1, 1>>, mmw), "height", mps)
         IN  [width |-> FinalFactor(min_width_shrink, mps),
              height |-> FinalFactor(min_height_shrink, mps)]

(* generate_pads, from the pad list on *)

\* shrink_factors = group_shrink_factors.get(i, {'width': 1.0, 'height': 1.0})
FactorsOf(i) ==
    IF i \in DOMAIN group_shrink_factors THEN group_shrink_factors[i]
    ELSE [width |-> <<1, 1>>, height |-> <<1, 1>>]

\* the cut of pad i: its place, its rotation and its adjusted size
PadCut(i) ==
    LET f == FactorsOf(i)
    IN  [x |-> all_pads[i].x, y |-> all_pads[i].y, angle |-> all_pads[i].angle,
         width |-> <<all_pads[i].width * f.width[1], f.width[2]>>,
         height |-> <<all_pads[i].height * f.height[1], f.height[2]>>]

\* no pad matches the layer criteria: only a comment is returned
PadsNone ==
    /\ pc = "pads"
    /\ all_pads = <<>>
    /\ pc' = "done"
    /\ UNCHANGED <<connectVars, boardVars, runVars, planVars, outlineVars, padVars>>

PadsFindGroups ==
    /\ pc = "pads"
    /\ all_pads # <<>>
    /\ pad_groups' = find_pad_groups(all_pads, min_mask_width)
    /\ gi' = 1
    /\ pc' = "shrink"
    /\ UNCHANGED <<connectVars, boardVars, runVars, planVars, outlineVars>>
    /\ UNCHANGED <<min_mask_width, min_pad_size, all_pads, group_shrink_factors, cuts>>

\* one iteration of "for group_indices in pad_groups"
PadsShrinkGroup ==
    /\ pc = "shrink"
    /\ gi <= Len(pad_groups)
    /\ LET shrink_factors ==
               calculate_group_shrink_factor(pad_groups[gi], all_pads,
                                             min_mask_width, min_pad_size)
       IN  group_shrink_factors' =
               [idx \in SeqRange(pad_groups[gi]) |-> shrink_factors] @@ group_shrink_factors
    /\ gi' = gi + 1
    /\ UNCHANGED <<pc, connectVars, boardVars, runVars, planVars, outlineVars>>
    /\ UNCHANGED <<min_mask_width, min_pad_size, all_pads, pad_groups, cuts>>

\* the loop that writes one cut per pad
PadsEmit ==
    /\ pc = "shrink"
    /\ gi > Len(pad_groups)
    /\ cuts' = [i \in 1..Len(all_pads) |-> PadCut(i)]
    /\ pc' = "done"
    /\ UNCHANGED <<connectVars, boardVars, runVars, planVars, outlineVars>>
    /\ UNCHANGED <<min_mask_width, min_pad_size, all_pads, pad_groups, gi, group_shrink_factors>>

(* the pad lists and configurations *)

MaxPads == 3

Pad(x, y, w, h, angle) == [x |-> x, y |-> y, width |-> w, height |-> h, angle |-> angle]

\* centres 0.8 mm and 1.1 mm apart along x, 1.1 mm apart along y
PadPositions == {<<0, 0>>, <<800, 0>>, <<1100, 0>>, <<0, 1100>>}

\* 0.3 mm x 0.3 mm, 1 mm x 1 mm and 2 mm x 1 mm pads
PadSizes == {<<300, 300>>, <<1000, 1000>>, <<2000, 1000>>}

\* every size unrotated at every position, and the 2 mm x 1 mm pad turned
\* by 90 degrees at every position
PadValues ==
    {Pad(p[1], p[2], z[1], z[2], 0) : p \in PadPositions, z \in PadSizes}
    \cup {Pad(p[1], p[2], 2000, 1000, 90) : p \in PadPositions}

PadLists == UNION {[1..n -> PadValues] : n \in 0..MaxPads}

\* the defaults (0.20 mm, 0.40 mm), a narrower mask, a larger minimum pad
PadConfigs == {<<200, 400>>, <<100, 400>>, <<200, 1200>>}

InitPads ==
    /\ pc = "pads"
    /\ all_pads \in PadLists
    /\ \E cfg \in PadConfigs : min_mask_width = cfg[1] /\ min_pad_size = cfg[2]
    /\ pad_groups = <<>>
    /\ gi = 0
    /\ group_shrink_factors = <<>>
    /\ cuts = <<>>
    /\ IdleConnect
    /\ IdleBoard
    /\ IdleOutline
    /\ IdlePlan
    /\ IdleRun

NextPads ==
    \/ PadsNone
    \/ PadsFindGroups
    \/ PadsShrinkGroup
    \/ PadsEmit

SpecPads == InitPads /\ [][NextPads]_vars

---------------------------------------------------------------------------
(* Properties of the pad groups, shrink factors and pad cuts               *)

\* the groups have been computed
Grouped == pc \in {"shrink", "done"}

\* the group (a list of pad indices) that holds pad i
GroupOf(i) ==
    pad_groups[CHOOSE g \in 1..Len(pad_groups) : i \in SeqRange(pad_groups[g])]

\* C7: the groups returned by find_pad_groups partition the pad indices:
\* no group is empty, no index occurs twice in a group, and every pad index
\* lies in exactly one group.
C7_GroupsPartitionPads ==
    Grouped =>
        /\ \A g \in 1..Len(pad_groups) :
              /\ pad_groups[g] # <<>>
              /\ SeqRange(pad_groups[g]) \subseteq 1..Len(all_pads)
              /\ \A k, l \in 1..Len(pad_groups[g]) :
                    k # l => pad_groups[g][k] # pad_groups[g][l]
        /\ \A i \in 1..Len(all_pads) :
              Cardinality({g \in 1..Len(pad_groups) : i \in SeqRange(pad_groups[g])}) = 1

\* C7, witness: three pads fall into two groups, the first holding the
\* first and the third pad.
C7_Witness ==
    /\ Grouped
    /\ Len(all_pads) = 3
    /\ pad_groups = <<<<1, 3>>, <<2>>>>

\* C8: every shrink factor returned by calculate_group_shrink_factor has
\* its width ratio and its height ratio in (0, 1].
C8_ShrinkFactorsInUnitInterval ==
    \A i \in DOMAIN group_shrink_factors :
        LET f == group_shrink_factors[i]
        IN  /\ 0 < f.width[1] /\ f.width[1] <= f.width[2]
            /\ 0 < f.height[1] /\ f.height[1] <= f.height[2]

\* a cut dimension (a ratio) is at least min_pad_size
AtLeastMinPadSize(dimension) == dimension[1] >= min_pad_size * dimension[2]

\* C9, as claimed: every emitted pad cut is at least min_pad_size wide and
\* high, in groups of two or more pads and in singleton groups alike.
C9_CutsAtLeastMinPadSize ==
    pc = "done" =>
        \A i \in 1..Len(cuts) :
            AtLeastMinPadSize(cuts[i].width) /\ AtLeastMinPadSize(cuts[i].height)

\* C9, amended: a pad in a group of two or more pads is cut at least
\* min_pad_size wide and high; a pad in a singleton group is cut with its
\* own width and height, hence at least min_pad_size exactly when the pad
\* itself is.
C9_CutsAtLeastMinPadSizeInGroups ==
    pc = "done" =>
        \A i \in 1..Len(cuts) :
            IF Len(GroupOf(i)) >= 2
            THEN AtLeastMinPadSize(cuts[i].width) /\ AtLeastMinPadSize(cuts[i].height)
            ELSE /\ cuts[i].width[1] = all_pads[i].width * cuts[i].width[2]
                 /\ cuts[i].height[1] = all_pads[i].height * cuts[i].height[2]

\* C9, witness: a pad wider than min_pad_size, in a group of two or more,
\* has been cut exactly min_pad_size wide (the floor stopped the shrinking),
\* and another pad, alone in its group, has been cut with its own size.
C9_Witness ==
    /\ pc = "done"
    /\ \E i \in 1..Len(cuts) :
          /\ Len(GroupOf(i)) >= 2
          /\ all_pads[i].width > min_pad_size
          /\ cuts[i].width[1] = min_pad_size * cuts[i].width[2]
    /\ \E i \in 1..Len(cuts) :
          /\ Len(GroupOf(i)) = 1
          /\ cuts[i].width[1] = all_pads[i].width * cuts[i].width[2]

\* the gap left between two pads along x (along y) once ratio r is applied
\* to their widths (heights) is at least min_mask_width
GapKeptX(p1, p2, r) ==
    2 * r[2] * (abs(p2.x - p1.x) - min_mask_width) >= r[1] * (p1.width + p2.width)

GapKeptY(p1, p2, r) ==
    2 * r[2] * (abs(p2.y - p1.y) - min_mask_width) >= r[1] * (p1.height + p2.height)

\* C10: in a group of unrotated pads the pad-size floor is the only reason
\* for a missed mask width: for every X-dominant (Y-dominant) pair of the
\* group the gap along x (y) under the group's width (height) ratio is at
\* least min_mask_width, unless some pad of the group is already at or
\* below min_pad_size on that axis under that ratio.
C10_OnlyPadFloorBreaksMask ==
    Grouped =>
        \A g \in 1..Len(pad_groups) :
            (g < gi /\ Len(pad_groups[g]) >= 2) =>
                LET G == SeqRange(pad_groups[g])
                    f == group_shrink_factors[pad_groups[g][1]]
                    WidthAtFloor ==
                        \E m \in G : all_pads[m].width * f.width[1] <= min_pad_size * f.width[2]
                    HeightAtFloor ==
                        \E m \in G : all_pads[m].height * f.height[1] <= min_pad_size * f.height[2]
                IN  \A k, l \in G :
                        (k < l /\ ~Coincide(all_pads[k], all_pads[l])
                           /\ all_pads[k].angle = 0 /\ all_pads[l].angle = 0) =>
                            /\ XDominant(all_pads[k], all_pads[l]) =>
                                  GapKeptX(all_pads[k], all_pads[l], f.width) \/ WidthAtFloor
                            /\ YDominant(all_pads[k], all_pads[l]) =>
                                  GapKeptY(all_pads[k], all_pads[l], f.height) \/ HeightAtFloor

\* the centres of pads a and b are closer than the larger of their largest
\* dimensions plus twice the minimum mask width
Close(a, b) ==
    LET reach == Max2(Max2(a.width, a.height), Max2(b.width, b.height)) + 2 * min_mask_width
    IN  (a.x - b.x) * (a.x - b.x) + (a.y - b.y) * (a.y - b.y) < reach * reach

\* the pads linked to the pads of S by a chain of close pads
RECURSIVE Component(_)
Component(S) ==
    LET T == S \cup {j \in 1..Len(all_pads) :
                        \E i \in S : Close(all_pads[i], all_pads[j])}
    IN  IF T = S THEN S ELSE Component(T)

\* C15: two pads are in the same group exactly when a chain of close pads
\* links them: the groups, as sets, are the connected components of the
\* closeness relation, whatever the order of the pad list.
C15_GroupsAreComponents ==
    Grouped =>
        \A i \in 1..Len(all_pads) : SeqRange(GroupOf(i)) = Component({i})

\* C15, witness: the first and the second pad of the list are not close to
\* each other and are in one group through the third pad.
C15_Witness ==
    /\ Grouped
    /\ Len(all_pads) = 3
    /\ ~Close(all_pads[1], all_pads[2])
    /\ pad_groups = <<<<1, 3, 2>>>>

\* the extent of a pad as placed, along x and along y
ExtentX(p) == IF p.angle = 90 THEN p.height ELSE p.width

ExtentY(p) == IF p.angle = 90 THEN p.width ELSE p.height

\* C16: the gap the shrink solver computes for a pad pair along its
\* dominant axis is the centre distance along that axis minus the two
\* half-extents of the pads as placed: a pad turned by 90 degrees extends
\* half its height along x and half its width along y.
C16_GapUsesPlacedExtents ==
    Grouped =>
        \A g \in 1..Len(pad_groups) :
            (g < gi /\ Len(pad_groups[g]) >= 2) =>
                \A k, l \in SeqRange(pad_groups[g]) :
                    LET p1 == all_pads[k]
                        p2 == all_pads[l]
                    IN  (k < l /\ ~Coincide(p1, p2)) =>
                            /\ XDominant(p1, p2) =>
                                  CurrentGapX(p1, p2)
                                      = 2 * abs(p2.x - p1.x) - ExtentX(p1) - ExtentX(p2)
                            /\ YDominant(p1, p2) =>
                                  CurrentGapY(p1, p2)
                                      = 2 * abs(p2.y - p1.y) - ExtentY(p1) - ExtentY(p2)

---------------------------------------------------------------------------
(* generate_modules: the frame, the outline, the pads, the alignment holes *)

(* calculate_pcb_bounds *)

\* the result of calculate_pcb_bounds: centre in nanometres, size in mm
Bounds(cx, cy, w, h) == [center_x |-> cx, center_y |-> cy, width |-> w, height |-> h]

\* the Edge.Cuts drawings calculate_pcb_bounds takes points from
EdgeCutsShapes(ds) ==
    {i \in 1..Len(ds) : /\ ds[i].layer = "Edge_Cuts"
                        /\ ds[i].shape \in {"segment", "circle", "rect", "arc"}}

\* the points one Edge.Cuts drawing contributes to the bounding box
BoundsPoints(d) ==
    CASE d.shape = "segment" -> {d.start, d.end}
      [] d.shape = "rect" -> {d.start, d.end}
      [] d.shape = "circle" -> {<<d.center[1] - d.radius, d.center[2] - d.radius>>,
                                <<d.center[1] + d.radius, d.center[2] + d.radius>>}
      [] d.shape = "arc" -> {d.center, d.start, d.end}

SetMin(S) == CHOOSE v \in S : \A u \in S : v <= u

SetMax(S) == CHOOSE v \in S : \A u \in S : v >= u

calculate_pcb_bounds(ds, bb) ==
    LET pcb_rect == find_shape_on_layer(ds, "User_9")
        P == UNION {BoundsPoints(ds[i]) : i \in EdgeCutsShapes(ds)}
        X == {pt[1] : pt \in P}
        Y == {pt[2] : pt \in P}
    IN  IF pcb_rect # None
        THEN Bounds(pcb_rect[1] + pcb_rect[3] \div 2, pcb_rect[2] + pcb_rect[4] \div 2,
                    mm(pcb_rect[3]), mm(pcb_rect[4]))
        ELSE IF P # {}
        THEN Bounds((SetMin(X) + SetMax(X)) \div 2, (SetMin(Y) + SetMax(Y)) \div 2,
                    mm(SetMax(X) - SetMin(X)), mm(SetMax(Y) - SetMin(Y)))
        ELSE Bounds(bb.x + bb.w \div 2, bb.y + bb.h \div 2, mm(bb.w), mm(bb.h))

(* generate_frame *)

\* frame_margin = 5.0 mm
FrameMargin == 5000

\* a rectangle on User.8 is the frame
FrameUser8 ==
    /\ pc = "modules"
    /\ find_shape_on_layer(drawings, "User_8") # None
    /\ LET frame_rect == find_shape_on_layer(drawings, "User_8")
       IN  frame' = SquareShape(mm(frame_rect[3]), mm(frame_rect[4]))
    /\ stage' = "pcb_outline"
    /\ pc' = "outline"
    /\ UNCHANGED <<connectVars, boardVars, runVars, outlineVars, padVars>>
    /\ UNCHANGED <<front_copper_pads, back_copper_pads, board_pads, pcb_bounds,
                   pads_center, holes>>

\* no rectangle on User.8: the frame is the PCB bounds plus the margin
FrameAuto ==
    /\ pc = "modules"
    /\ find_shape_on_layer(drawings, "User_8") = None
    /\ pcb_bounds' = calculate_pcb_bounds(drawings, bbox)
    /\ frame' = SquareShape(pcb_bounds'.width + 2 * FrameMargin,
                            pcb_bounds'.height + 2 * FrameMargin)
    /\ stage' = "pcb_outline"
    /\ pc' = "outline"
    /\ UNCHANGED <<connectVars, boardVars, runVars, outlineVars, padVars>>
    /\ UNCHANGED <<front_copper_pads, back_copper_pads, board_pads, pads_center, holes>>

(* generate_pads, up to the pad list *)

\* the centre generate_pads subtracts from the pad positions
PadsCenter(ds, bb) ==
    LET pcb_rect == find_shape_on_layer(ds, "User_9")
    IN  IF pcb_rect # None
        THEN <<pcb_rect[1] + pcb_rect[3] \div 2, pcb_rect[2] + pcb_rect[4] \div 2>>
        ELSE <<bb.x + bb.w \div 2, bb.y + bb.h \div 2>>

\* should_include
ShouldInclude(p, front, back) ==
    /\ p.attribute = "smd"
    /\ \/ front /\ "F_Cu" \in p.layers
       \/ back /\ "B_Cu" \in p.layers

\* pads_info: the selected pads, re-centred, in millimetres
RECURSIVE PadsInfo(_, _, _, _)
PadsInfo(ps, c, front, back) ==
    IF ps = <<>> THEN <<>>
    ELSE (IF ShouldInclude(Head(ps), front, back)
          THEN <<[x |-> mm(Head(ps).pos[1] - c[1]), y |-> mm(Head(ps).pos[2] - c[2]),
                  width |-> mm(Head(ps).size[1]), height |-> mm(Head(ps).size[2]),
                  angle |-> Head(ps).angle]>>
          ELSE <<>>)
         \o PadsInfo(Tail(ps), c, front, back)

\* generate_pcb_outline has returned; generate_pads collects the pads
PadsCollect ==
    /\ pc = "done"
    /\ stage = "pcb_outline"
    /\ pads_center' = PadsCenter(drawings, bbox)
    /\ all_pads' = PadsInfo(board_pads, pads_center', front_copper_pads, back_copper_pads)
    /\ stage' = "pads"
    /\ pc' = "pads"
    /\ UNCHANGED <<connectVars, boardVars, runVars, outlineVars>>
    /\ UNCHANGED <<min_mask_width, min_pad_size, pad_groups, gi, group_shrink_factors, cuts>>
    /\ UNCHANGED <<front_copper_pads, back_copper_pads, board_pads, frame, pcb_bounds, holes>>

(* generate_alignment_holes *)

\* find_circles_on_layer: the centres of the circles on the layer
RECURSIVE find_circles_on_layer(_, _)
find_circles_on_layer(ds, layer) ==
    IF ds = <<>> THEN <<>>
    ELSE (IF Head(ds).shape = "circle" /\ Head(ds).layer = layer
          THEN <<Head(ds).center>> ELSE <<>>)
         \o find_circles_on_layer(Tail(ds), layer)

\* the hole term: a comment, or one cylinder per hole
HoleTerm(note, cyls) == [note |-> note, cylinders |-> cyls]

HolesReady == pc = "done" /\ stage = "pads"

\* "No alignment holes found on User.7 layer"
HolesNone ==
    /\ HolesReady
    /\ find_circles_on_layer(drawings, "User_7") = <<>>
    /\ holes' = HoleTerm("no alignment holes", <<>>)
    /\ stage' = "alignment_holes"
    /\ UNCHANGED <<pc, connectVars, boardVars, runVars, outlineVars, padVars>>
    /\ UNCHANGED <<front_copper_pads, back_copper_pads, board_pads, frame, pcb_bounds,
                   pads_center>>

\* "No PCB outline found on User.9 layer"
HolesNoOutline ==
    /\ HolesReady
    /\ find_circles_on_layer(drawings, "User_7") # <<>>
    /\ find_shape_on_layer(drawings, "User_9") = None
    /\ holes' = HoleTerm("no PCB outline", <<>>)
    /\ stage' = "alignment_holes"
    /\ UNCHANGED <<pc, connectVars, boardVars, runVars, outlineVars, padVars>>
    /\ UNCHANGED <<front_copper_pads, back_copper_pads, board_pads, frame, pcb_bounds,
                   pads_center>>

\* one cylinder per circle, re-centred against the User.9 rectangle
HolesEmit ==
    /\ HolesReady
    /\ find_circles_on_layer(drawings, "User_7") # <<>>
    /\ find_shape_on_layer(drawings, "User_9") # None
    /\ LET alignment_holes == find_circles_on_layer(drawings, "User_7")
           pcb_rect == find_shape_on_layer(drawings, "User_9")
           center_x == pcb_rect[1] + pcb_rect[3] \div 2
           center_y == pcb_rect[2] + pcb_rect[4] \div 2
       IN  holes' = HoleTerm("", [k \in 1..Len(alignment_holes) |->
                                     <<mm(alignment_holes[k][1] - center_x),
                                       mm(alignment_holes[k][2] - center_y)>>])
    /\ stage' = "alignment_holes"
    /\ UNCHANGED <<pc, connectVars, boardVars, runVars, outlineVars, padVars>>
    /\ UNCHANGED <<front_copper_pads, back_copper_pads, board_pads, frame, pcb_bounds,
                   pads_center>>

(* the boards the modules are generated for *)

BoardPad(pos, size, attribute, layers) ==
    [pos |-> pos, size |-> size, angle |-> 0, attribute |-> attribute, layers |-> layers]

\* two SMD pads 0.8 mm apart on the front, a through-hole pad, an SMD pad
\* on the back
BoardPadRow ==
    << BoardPad(AtMm(5, 2), <<1000 * NmPerMicron, 1000 * NmPerMicron>>, "smd", {"F_Cu"}),
       BoardPad(<<5800 * NmPerMicron, 2000 * NmPerMicron>>,
                <<1000 * NmPerMicron, 1000 * NmPerMicron>>, "smd", {"F_Cu"}),
       BoardPad(AtMm(8, 4), <<1500 * NmPerMicron, 1500 * NmPerMicron>>, "tht", {"F_Cu", "B_Cu"}),
       BoardPad(AtMm(1, 1), <<300 * NmPerMicron, 300 * NmPerMicron>>, "smd", {"B_Cu"}) >>

\* two lines that do not join, a circle, a rectangle, an arc and a polygon
\* on Edge.Cuts; the reference rectangle on User.9; a frame rectangle on
\* User.8; two alignment holes on User.7
ModuleDrawings ==
    { Line("Edge_Cuts", AtMm(0, 0), AtMm(10, 0)),
      Line("Edge_Cuts", AtMm(0, 8), AtMm(4, 8)),
      Drawing("Edge_Cuts", "circle", <<0, 0>>, <<0, 0>>, AtMm(5, 2), 1000 * NmPerMicron),
      Drawing("Edge_Cuts", "rect", AtMm(1, 1), AtMm(3, 4), <<0, 0>>, 0),
      Drawing("Edge_Cuts", "arc", AtMm(20, 5), AtMm(15, 10), AtMm(15, 5), 0),
      Drawing("Edge_Cuts", "poly", <<0, 0>>, <<0, 0>>, <<0, 0>>, 0),
      Drawing("User_9", "rect", AtMm(0, 0), AtMm(10, 6), <<0, 0>>, 0),
      Drawing("User_8", "rect", AtMm(0, 0), AtMm(20, 10), <<0, 0>>, 0),
      Drawing("User_7", "circle", <<0, 0>>, <<0, 0>>, AtMm(1, 1), 1500 * NmPerMicron),
      Drawing("User_7", "circle", <<0, 0>>, <<0, 0>>, AtMm(9, 5), 1500 * NmPerMicron) }

\* the corners a drawing and a pad contribute to the board's bounding box
DrawingCorners(d) ==
    IF d.shape \in {"segment", "circle", "rect", "arc"} THEN BoundsPoints(d) ELSE {}

PadCorners(p) ==
    {<<p.pos[1] - p.size[1] \div 2, p.pos[2] - p.size[2] \div 2>>,
     <<p.pos[1] + p.size[1] \div 2, p.pos[2] + p.size[2] \div 2>>}

\* board.GetBoundingBox(): the box around all the items of the board, of
\* size zero when the board holds nothing
BoardBoundingBox(ds, ps) ==
    LET P == UNION ({DrawingCorners(ds[i]) : i \in 1..Len(ds)}
                    \cup {PadCorners(ps[i]) : i \in 1..Len(ps)})
        X == {pt[1] : pt \in P}
        Y == {pt[2] : pt \in P}
    IN  IF P = {} THEN [x |-> 0, y |-> 0, w |-> 0, h |-> 0]
        ELSE [x |-> SetMin(X), y |-> SetMin(Y),
              w |-> SetMax(X) - SetMin(X), h |-> SetMax(Y) - SetMin(Y)]

InitModules ==
    /\ pc = "modules"
    /\ stage = "frame"
    /\ \E n \in 0..MaxDrawings : drawings \in [1..n -> ModuleDrawings]
    /\ \E n \in 0..Min2(MaxPads, Len(BoardPadRow)) : board_pads = SubSeq(BoardPadRow, 1, n)
    /\ bbox = BoardBoundingBox(drawings, board_pads)
    /\ \E f \in {<<TRUE, FALSE>>, <<FALSE, TRUE>>} :
          front_copper_pads = f[1] /\ back_copper_pads = f[2]
    /\ pcbClearence = 150
    /\ min_mask_width = 200
    /\ min_pad_size = 400
    /\ all_pads = <<>>
    /\ pad_groups = <<>>
    /\ gi = 0
    /\ group_shrink_factors = <<>>
    /\ cuts = <<>>
    /\ frame = <<>>
    /\ pcb_bounds = <<>>
    /\ pads_center = <<0, 0>>
    /\ holes = <<>>
    /\ IdleConnect
    /\ IdleOutline
    /\ IdleRun

NextModules ==
    \/ FrameUser8
    \/ FrameAuto
    \/ NextOutline
    \/ PadsCollect
    \/ NextPads
    \/ HolesNone
    \/ HolesNoOutline
    \/ HolesEmit

SpecModules == InitModules /\ [][NextModules]_vars

---------------------------------------------------------------------------
(* Run: the parameters dialog, the module globals and the output file      *)

\* the five configuration globals
Config(front, back, mask, pad, clearance) ==
    [front_copper_pads |-> front, back_copper_pads |-> back, min_mask_width |-> mask,
     min_pad_size |-> pad, pcbClearence |-> clearance]

\* the values of the globals now
Globals ==
    Config(front_copper_pads, back_copper_pads, min_mask_width, min_pad_size, pcbClearence)

\* the values the module is loaded with
Defaults == Config(TRUE, FALSE, 200, 400, 150)

\* the text of a dialog field: str(x) of a number, or something float()
\* rejects with ValueError
Str(x) == [numeric |-> TRUE, number |-> x]

NotANumber == [numeric |-> FALSE, number |-> 0]

\* StencilParametersDialog.__init__: the fields show the globals
Dialog(g) ==
    [front_copper_cb |-> g.front_copper_pads, back_copper_cb |-> g.back_copper_pads,
     mask_width_ctrl |-> Str(g.min_mask_width), pad_size_ctrl |-> Str(g.min_pad_size),
     clearance_ctrl |-> Str(g.pcbClearence)]

\* the user leaves a field as shown (keep) or overwrites it
Keep == [keep |-> TRUE, to |-> NotANumber]

Type(t) == [keep |-> FALSE, to |-> t]

Edited(shown, e) == IF e.keep THEN shown ELSE e.to

Checked(shown, e) == IF e = "keep" THEN shown ELSE e = "on"

\* the dialog after the user's edits
Fill(d, e) ==
    [front_copper_cb |-> Checked(d.front_copper_cb, e.front),
     back_copper_cb |-> Checked(d.back_copper_cb, e.back),
     mask_width_ctrl |-> Edited(d.mask_width_ctrl, e.mask),
     pad_size_ctrl |-> Edited(d.pad_size_ctrl, e.pad),
     clearance_ctrl |-> Edited(d.clearance_ctrl, e.clearance)]

\* get_values: the five values, or None when a float() raises ValueError
get_values(d) ==
    IF d.mask_width_ctrl.numeric /\ d.pad_size_ctrl.numeric /\ d.clearance_ctrl.numeric
    THEN Config(d.front_copper_cb, d.back_copper_cb, d.mask_width_ctrl.number,
                d.pad_size_ctrl.number, d.clearance_ctrl.number)
    ELSE None

\* the segments the outline loop collects from a board without arcs
RECURSIVE EdgeCutsSegments(_, _)
EdgeCutsSegments(ds, c) ==
    IF ds = <<>> THEN <<>>
    ELSE (IF Head(ds).layer = "Edge_Cuts" /\ Head(ds).shape = "segment"
          THEN <<<<Rel(Head(ds).start, c), Rel(Head(ds).end, c)>>>> ELSE <<>>)
         \o EdgeCutsSegments(Tail(ds), c)

\* generate_openscad raises: the outline falls back to thin lines while the
\* local name math is unbound
GenerationRaises(ds) ==
    LET segs == EdgeCutsSegments(ds, OutlineCenter(ds, BoardBoundingBox(ds, <<>>)))
    IN  /\ find_shape_on_layer(ds, "User_9") = None
        /\ \A i \in 1..Len(ds) : ~(ds[i].layer = "Edge_Cuts" /\ ds[i].shape = "arc")
        /\ segs # <<>>
        /\ connect_line_segments(segs) = <<>>
        /\ \E k \in 1..Len(segs) : IsLong(segs[k])

\* what generate_openscad returns: the plan of the board under the globals
generate_openscad(b, g) == [drawings |-> b.drawings, config |-> g]

\* the output file: missing, or holding the text written to it
NoFile == [exists |-> FALSE, content |-> <<>>]

File(content) == [exists |-> TRUE, content |-> content]

(* the invocations of Run *)

MaxRuns == 3

\* a board with one Edge.Cuts line, a board with two lines that do not
\* join, and a board that has not been saved
StitchingBoard ==
    [file_name |-> "board.kicad_pcb",
     drawings |-> <<Line("Edge_Cuts", AtMm(0, 0), AtMm(10, 0))>>]

OpenLinesBoard ==
    [file_name |-> "board.kicad_pcb",
     drawings |-> <<Line("Edge_Cuts", AtMm(0, 0), AtMm(10, 0)),
                    Line("Edge_Cuts", AtMm(0, 8), AtMm(4, 8))>>]

UnsavedBoard == [file_name |-> "", drawings |-> <<>>]

RunBoards == {StitchingBoard, OpenLinesBoard, UnsavedBoard}

\* what the user may do to the fields before pressing OK
Edits ==
    [front : {"keep", "off"}, back : {"keep", "on"},
     mask : {Keep, Type(Str(300)), Type(NotANumber)},
     pad : {Keep, Type(NotANumber)},
     clearance : {Keep, Type(Str(0))}]

NoEdits == [front |-> "keep", back |-> "keep", mask |-> Keep, pad |-> Keep, clearance |-> Keep]

(* Run *)

\* Run is entered and the board has no file name: RuntimeError, caught
RunNoBoardFile ==
    /\ pc = "idle"
    /\ runs < MaxRuns
    /\ \E b \in RunBoards : b.file_name = "" /\ board' = b
    /\ runs' = runs + 1
    /\ before' = [config |-> Globals, file |-> scad_file]
    /\ outcome' = "failed"
    /\ user_input' = <<>>
    /\ UNCHANGED <<pc, dlg, scad_file>>
    /\ UNCHANGED <<connectVars, outlineVars, planVars, drawings, bbox, pcbClearence>>
    /\ UNCHANGED <<padVars>>

\* Run is entered and show_parameters_dialog shows the dialog
RunShowDialog ==
    /\ pc = "idle"
    /\ runs < MaxRuns
    /\ \E b \in RunBoards : b.file_name # "" /\ board' = b
    /\ runs' = runs + 1
    /\ before' = [config |-> Globals, file |-> scad_file]
    /\ dlg' = Dialog(Globals)
    /\ outcome' = "running"
    /\ user_input' = <<>>
    /\ pc' = "dialog"
    /\ UNCHANGED scad_file
    /\ UNCHANGED <<connectVars, outlineVars, planVars, drawings, bbox, pcbClearence>>
    /\ UNCHANGED <<padVars>>

\* the user cancels the dialog
DialogCancel ==
    /\ pc = "dialog"
    /\ user_input' = [button |-> "cancel", edits |-> NoEdits]
    /\ outcome' = "cancelled"
    /\ pc' = "idle"
    /\ UNCHANGED <<board, dlg, scad_file, runs, before>>
    /\ UNCHANGED <<connectVars, outlineVars, planVars, drawings, bbox, pcbClearence>>
    /\ UNCHANGED <<padVars>>

\* the user confirms, a numeric field does not parse: the globals are
\* assigned the shown flags first and the run ends
DialogOkInvalid_PartialUpdate ==
    /\ pc = "dialog"
    /\ \E e \in Edits :
          /\ get_values(Fill(dlg, e)) = None
          /\ user_input' = [button |-> "ok", edits |-> e]
          /\ front_copper_pads' = Fill(dlg, e).front_copper_cb
          /\ back_copper_pads' = Fill(dlg, e).back_copper_cb
    /\ outcome' = "invalid"
    /\ pc' = "idle"
    /\ UNCHANGED <<board, dlg, scad_file, runs, before>>
    /\ UNCHANGED <<connectVars, outlineVars, drawings, bbox, pcbClearence>>
    /\ UNCHANGED <<padVars, board_pads, stage, frame, pcb_bounds, pads_center, holes>>

\* the user confirms, a numeric field does not parse: get_values returns
\* None and the run ends
DialogOkInvalid ==
    /\ pc = "dialog"
    /\ \E e \in Edits :
          /\ get_values(Fill(dlg, e)) = None
          /\ user_input' = [button |-> "ok", edits |-> e]
    /\ outcome' = "invalid"
    /\ pc' = "idle"
    /\ UNCHANGED <<board, dlg, scad_file, runs, before>>
    /\ UNCHANGED <<connectVars, outlineVars, planVars, drawings, bbox, pcbClearence>>
    /\ UNCHANGED <<padVars>>

\* the user confirms and every field parses: the globals are updated
DialogOkValid ==
    /\ pc = "dialog"
    /\ \E e \in Edits :
          LET values == get_values(Fill(dlg, e))
          IN  /\ values # None
              /\ user_input' = [button |-> "ok", edits |-> e]
              /\ front_copper_pads' = values.front_copper_pads
              /\ back_copper_pads' = values.back_copper_pads
              /\ min_mask_width' = values.min_mask_width
              /\ min_pad_size' = values.min_pad_size
              /\ pcbClearence' = values.pcbClearence
    /\ pc' = "open"
    /\ UNCHANGED <<board, dlg, scad_file, outcome, runs, before>>
    /\ UNCHANGED <<connectVars, outlineVars, drawings, bbox>>
    /\ UNCHANGED <<all_pads, pad_groups, gi, group_shrink_factors, cuts>>
    /\ UNCHANGED <<board_pads, stage, frame, pcb_bounds, pads_center, holes>>

\* open(output_filename, 'w'): the file is created, or emptied
OpenOutput ==
    /\ pc = "open"
    /\ scad_file' = File(<<>>)
    /\ pc' = "generate"
    /\ UNCHANGED <<board, dlg, user_input, outcome, runs, before>>
    /\ UNCHANGED <<connectVars, outlineVars, planVars, drawings, bbox, pcbClearence>>
    /\ UNCHANGED <<padVars>>

\* generate_openscad returns and its text is written
GenerateWrite ==
    /\ pc = "generate"
    /\ ~GenerationRaises(board.drawings)
    /\ scad_file' = File(<<generate_openscad(board, Globals)>>)
    /\ outcome' = "written"
    /\ pc' = "idle"
    /\ UNCHANGED <<board, dlg, user_input, runs, before>>
    /\ UNCHANGED <<connectVars, outlineVars, planVars, drawings, bbox, pcbClearence>>
    /\ UNCHANGED <<padVars>>

\* generate_openscad raises: the file is closed as it is, the error is
\* logged and Run returns
GenerateRaise ==
    /\ pc = "generate"
    /\ GenerationRaises(board.drawings)
    /\ outcome' = "failed"
    /\ pc' = "idle"
    /\ UNCHANGED <<board, dlg, user_input, scad_file, runs, before>>
    /\ UNCHANGED <<connectVars, outlineVars, planVars, drawings, bbox, pcbClearence>>
    /\ UNCHANGED <<padVars>>

InitRun ==
    /\ pc = "idle"
    /\ board = <<>>
    /\ dlg = <<>>
    /\ user_input = <<>>
    /\ scad_file \in {NoFile, File(<<generate_openscad(StitchingBoard, Defaults)>>)}
    /\ outcome = "none"
    /\ runs = 0
    /\ before = <<>>
    /\ front_copper_pads = Defaults.front_copper_pads
    /\ back_copper_pads = Defaults.back_copper_pads
    /\ min_mask_width = Defaults.min_mask_width
    /\ min_pad_size = Defaults.min_pad_size
    /\ pcbClearence = Defaults.pcbClearence
    /\ drawings = <<>>
    /\ bbox = [x |-> 0, y |-> 0, w |-> 0, h |-> 0]
    /\ all_pads = <<>>
    /\ pad_groups = <<>>
    /\ gi = 0
    /\ group_shrink_factors = <<>>
    /\ cuts = <<>>
    /\ board_pads = <<>>
    /\ stage = "none"
    /\ frame = <<>>
    /\ pcb_bounds = <<>>
    /\ pads_center = <<0, 0>>
    /\ holes = <<>>
    /\ IdleConnect
    /\ IdleOutline

NextRun ==
    \/ RunNoBoardFile
    \/ RunShowDialog
    \/ DialogCancel
    \/ DialogOkInvalid
    \/ DialogOkValid
    \/ OpenOutput
    \/ GenerateWrite
    \/ GenerateRaise

SpecRun == InitRun /\ [][NextRun]_vars

---------------------------------------------------------------------------
(* Properties of the generated modules                                     *)

\* the centre of the rectangle that sized the auto-calculated frame
BoundsCenter == <<pcb_bounds.center_x, pcb_bounds.center_y>>

\* C11: every stage takes the board reference from the same chain (User.9
\* rectangle, else Edge.Cuts bounding box, else board bounding box): once
\* the frame has been auto-calculated from a bounds rectangle, the centre
\* the Edge.Cuts outline is re-centred on and the centre the pads are
\* re-centred on are the centre of that rectangle.
C11_OneReferenceForAllStages ==
    pcb_bounds # <<>> =>
        /\ (stage = "pcb_outline" /\ pc \in {"collect", "done", "raised"}
              /\ find_shape_on_layer(drawings, "User_9") = None) => center = BoundsCenter
        /\ stage \in {"pads", "alignment_holes"} => pads_center = BoundsCenter

\* C12: the alignment-hole term holds exactly one hole per circle on
\* User.7, each re-centred against the board reference, whichever tier of
\* the chain supplied that reference (also without a User.9 rectangle); the
\* term is empty only when there is no such circle.
C12_OneHolePerAlignmentCircle ==
    stage = "alignment_holes" =>
        LET circles == find_circles_on_layer(drawings, "User_7")
            ref == calculate_pcb_bounds(drawings, bbox)
        IN  /\ Len(holes.cylinders) = Len(circles)
            /\ \A k \in 1..Len(circles) :
                  holes.cylinders[k] = <<mm(circles[k][1] - ref.center_x),
                                         mm(circles[k][2] - ref.center_y)>>

\* the board holds no primitive at all and has no usable bounding box
EmptyBoard ==
    /\ drawings = <<>>
    /\ board_pads = <<>>
    /\ bbox.w = 0 /\ bbox.h = 0

\* C13: when the primitive set is entirely empty and no usable bounding box
\* exists, synthesis stops with an error and produces no plan: no frame,
\* outline, pad or hole term is emitted.
C13_EmptyBoardYieldsNoPlan ==
    (EmptyBoard /\ stage # "none") =>
        /\ pc \in {"modules", "raised"}
        /\ frame = <<>>
        /\ scad = <<>>
        /\ cuts = <<>>
        /\ holes = <<>>

---------------------------------------------------------------------------
(* Properties of Run                                                       *)

\* the configuration the user's input of the latest invocation selects by
\* itself: the edits applied to the dialog of a freshly loaded module
OwnConfig == get_values(Fill(Dialog(Defaults), user_input.edits))

\* C14: no state written by one invocation is read by a later one: the
\* configuration in effect after a confirmed invocation and the plan it
\* writes are those selected by the invocation's own inputs (the board and
\* what the user entered), whatever invocations preceded it.
C14_InvocationsAreIndependent ==
    outcome = "written" =>
        /\ Globals = OwnConfig
        /\ scad_file = File(<<generate_openscad(board, OwnConfig)>>)

\* C19: when the dialog is cancelled, or confirmed with a non-numeric value
\* in a numeric field, the run ends with the five configuration values
\* unchanged and the output file neither created nor modified.
C19_RejectedDialogChangesNothing ==
    outcome \in {"cancelled", "invalid"} =>
        /\ pc = "idle"
        /\ Globals = before.config
        /\ scad_file = before.file

\* C19, witness: a dialog opened on changed globals and an existing output
\* file is confirmed with the front flag switched off, a new mask width and
\* a pad size that is not a number.
C19_Witness ==
    /\ outcome = "invalid"
    /\ before.config # Defaults
    /\ before.file.exists
    /\ user_input.edits.front = "off"
    /\ before.config.front_copper_pads
    /\ user_input.edits.mask = Type(Str(300))
    /\ before.config.min_mask_width # 300
    /\ user_input.edits.pad = Type(NotANumber)

\* C20: the output file is only ever replaced by a complete plan: when an
\* invocation fails the file is as it was before the run, and Run returns.
C20_FailedRunKeepsOutputFile ==
    outcome = "failed" =>
        /\ pc = "idle"
        /\ scad_file = before.file

=============================================================================
